---- MODULE Spec2Model ----
(***************************************************************************)
(* TimeSeries of hifitime (src/src/timeseries.rs): an iterator over evenly *)
(* spaced Epochs.  Epochs and Durations are counted in ticks (integers);   *)
(* an f64 is a fraction num/den, with den = 0 for the non-finite values    *)
(* (num > 0: +inf, num = 0: NaN).                                          *)
(***************************************************************************)
EXTENDS Integers, Sequences, FiniteSets, TLC

\* ---------------------------------------------------------------- bounds
MaxEpoch == 12          \* start and end range over 0..MaxEpoch
MaxStep == 3            \* step ranges over -MaxStep..MaxStep
UsizeBits == 3          \* width of the count type usize
MaxProduced == MaxEpoch + 2   \* cap on the number of next() results recorded

Epochs == 0..MaxEpoch
Steps == (0 - MaxStep)..MaxStep

VARIABLES start, end, step, cur, incl,   \* the fields of TimeSeries
          op,        \* the last operation: "new", "next", "next_back", "len", "size_hint"
          ret,       \* Option<Epoch> returned by the last next() / next_back()
          count,     \* usize returned by the last len()
          hint,      \* (usize, Option<usize>) returned by the last size_hint()
          produced   \* the elements returned by next() so far, in order

vars == <<start, end, step, cur, incl, op, ret, count, hint, produced>>

\* ------------------------------------------------- Epoch, Duration, f64
TicksPerSecond == 4

EpochAdd(e, d) == e + d          \* Epoch + Duration -> Epoch
EpochSub(e, d) == e - d          \* Epoch - Duration -> Epoch
EpochDiff(a, b) == a - b         \* Epoch - Epoch -> Duration

F64(n, d) == [num |-> n, den |-> d]
in_seconds(d) == F64(d, TicksPerSecond)
IsNaN(x) == x.den = 0 /\ x.num = 0
IsInf(x) == x.den = 0 /\ x.num # 0
F64Div(x, y) ==
    LET n == x.num * y.den
        d == x.den * y.num
    IN  IF d < 0 THEN F64(0 - n, 0 - d) ELSE F64(n, d)
F64Abs(x) == F64(IF x.num < 0 THEN 0 - x.num ELSE x.num, x.den)
F64Floor(x) == IF x.den = 0 THEN x ELSE F64(x.num \div x.den, 1)
F64Ceil(x) == IF x.den = 0 THEN x ELSE F64(0 - ((0 - x.num) \div x.den), 1)

USIZE_MAX == 2 ^ UsizeBits - 1
\* x >= usize::MAX as f64
GeUsizeMax(x) ==
    IF x.den = 0 THEN x.num > 0 ELSE x.num >= USIZE_MAX * x.den
\* x as usize (saturating: NaN is 0)
AsUsize(x) ==
    IF IsNaN(x) THEN 0
    ELSE IF GeUsizeMax(x) THEN USIZE_MAX
    ELSE IF x.num < 0 THEN 0
    ELSE x.num \div x.den

None == [some |-> FALSE, val |-> 0]
Some(e) == [some |-> TRUE, val |-> e]
NoHint == [lo |-> 0, hi |-> None, panicked |-> FALSE]

\* ------------------------------------------------------------ constructors
\* variants of the constructors that start the cursor at start itself
exclusiveAtStart(s, e, d) ==
    /\ start = s
    /\ end = e
    /\ step = d
    /\ cur = s
    /\ incl = FALSE

inclusiveAtStart(s, e, d) ==
    /\ start = s
    /\ end = e
    /\ step = d
    /\ cur = s
    /\ incl = TRUE

exclusive(s, e, d) ==
    /\ start = s
    /\ end = e
    /\ step = d
    /\ cur = EpochSub(s, d)
    /\ incl = FALSE

inclusive(s, e, d) ==
    /\ start = s
    /\ end = e
    /\ step = d
    /\ cur = EpochSub(s, d)
    /\ incl = TRUE

Init ==
    /\ \E s \in Epochs, e \in Epochs, d \in Steps :
          exclusive(s, e, d) \/ inclusive(s, e, d)
    /\ op = "new"
    /\ ret = None
    /\ count = 0
    /\ hint = NoHint
    /\ produced = <<>>

\* ------------------------------------------------------------------ next()
\* variants of the termination test, used to show that the properties below
\* depend on it
NextStopsAtEndOnlyPast(ni) == ni > end
NextStopsAtEndAlways(ni) == ni >= end
NextStopsNever(ni) == FALSE
NextStopsOnEqual(ni) == (~incl /\ ni > end) \/ (incl /\ ni >= end)

\* the termination test of next() on the candidate ni
NextStops(ni) == (~incl /\ ni >= end) \/ (incl /\ ni > end)

\* variant of next() that moves the cursor before the termination test
nextMovesCursorFirst ==
    /\ Len(produced) < MaxProduced
    /\ LET next_item == EpochAdd(cur, step) IN
         /\ cur' = next_item
         /\ IF NextStops(next_item)
            THEN /\ ret' = None
                 /\ UNCHANGED produced
            ELSE /\ ret' = Some(next_item)
                 /\ produced' = Append(produced, next_item)
    /\ op' = "next"
    /\ count' = 0
    /\ hint' = NoHint
    /\ UNCHANGED <<start, end, step, incl>>

next ==
    /\ Len(produced) < MaxProduced
    /\ LET next_item == EpochAdd(cur, step) IN
         IF NextStops(next_item)
         THEN /\ ret' = None
              /\ UNCHANGED <<cur, produced>>
         ELSE /\ cur' = next_item
              /\ ret' = Some(next_item)
              /\ produced' = Append(produced, next_item)
    /\ op' = "next"
    /\ count' = 0
    /\ hint' = NoHint
    /\ UNCHANGED <<start, end, step, incl>>

\* ------------------------------------------------------------- next_back()
BackStopsAtStart(ni) == ni <= start
BackStopsBelowCur(ni) == ni < cur

\* the termination test of next_back() on the candidate ni
BackStops(ni) == ni < start

\* variant of next_back() that walks the cursor back
next_backMovesCursor ==
    /\ LET next_item == EpochSub(cur, step) IN
         IF BackStops(next_item)
         THEN /\ ret' = None
              /\ cur' = cur
         ELSE /\ ret' = Some(next_item)
              /\ cur' = next_item
    /\ op' = "next_back"
    /\ count' = 0
    /\ hint' = NoHint
    /\ UNCHANGED <<start, end, step, incl, produced>>

next_back ==
    /\ LET next_item == EpochSub(cur, step) IN
         IF BackStops(next_item)
         THEN ret' = None
         ELSE ret' = Some(next_item)
    /\ op' = "next_back"
    /\ count' = 0
    /\ hint' = NoHint
    /\ UNCHANGED <<start, end, step, cur, incl, produced>>

\* ------------------------------------------------------------------- len()
approx ==
    F64Abs(F64Div(in_seconds(EpochDiff(end, start)), in_seconds(step)))

\* variant of len() that rounds down in both modes
lenRoundsDown ==
    IF GeUsizeMax(F64Floor(approx))
    THEN USIZE_MAX
    ELSE AsUsize(F64Floor(approx))

len ==
    IF incl
    THEN IF GeUsizeMax(F64Ceil(approx))
         THEN USIZE_MAX
         ELSE AsUsize(F64Ceil(approx))
    ELSE IF GeUsizeMax(F64Floor(approx))
         THEN USIZE_MAX
         ELSE AsUsize(F64Floor(approx))

call_len ==
    /\ op' = "len"
    /\ count' = len
    /\ ret' = None
    /\ hint' = NoHint
    /\ UNCHANGED <<start, end, step, cur, incl, produced>>

\* ------------------------------------------------------------- size_hint()
\* self.len() + 1 on usize: a build with overflow checks panics, a build
\* without them wraps around.
size_hint ==
    /\ \E overflow_checks \in BOOLEAN :
         IF len + 1 > USIZE_MAX
         THEN IF overflow_checks
              THEN hint' = [lo |-> 0, hi |-> None, panicked |-> TRUE]
              ELSE hint' = [lo |-> len, hi |-> Some((len + 1) % (2 ^ UsizeBits)),
                            panicked |-> FALSE]
         ELSE hint' = [lo |-> len, hi |-> Some(len + 1), panicked |-> FALSE]
    /\ op' = "size_hint"
    /\ count' = 0
    /\ ret' = None
    /\ UNCHANGED <<start, end, step, cur, incl, produced>>

Next == next \/ next_back \/ call_len \/ size_hint

Spec == Init /\ [][Next]_vars

\* forward traversal: the caller keeps calling next()
FairSpec == Init /\ [][Next]_vars /\ WF_vars(next)

TypeOK ==
    /\ start \in Epochs /\ end \in Epochs /\ step \in Steps
    /\ incl \in BOOLEAN
    /\ cur \in Int
    /\ op \in {"new", "next", "next_back", "len", "size_hint"}
    /\ ret.some \in BOOLEAN
    /\ count \in 0..USIZE_MAX
    /\ Len(produced) <= MaxProduced

\* ------------------------------------------------------------ properties
\* next() has just reported the end of the forward traversal
Exhausted == op = "next" /\ ~ret.some
\* the number of k >= 0 for which start + k*step is before the end boundary
\* (step > 0): the elements a forward traversal is to produce
ExclusiveCount == Cardinality({k \in 0..MaxEpoch : start + k * step < end})
InclusiveCount == Cardinality({k \in 0..MaxEpoch : start + k * step <= end})
ForwardCount == IF incl THEN InclusiveCount ELSE ExclusiveCount
\* the elements produced so far are start, start + step, start + 2*step, ...
Arithmetic ==
    \A i \in 1..Len(produced) : produced[i] = start + (i - 1) * step

\* C1 (length agreement): the value of len() equals the number of elements
\* next() has produced when it first returns None, in both modes (stated
\* for an ascending range, step > 0 and start < end, whose count is below the
\* largest usize).
C1_LengthAgreement ==
    (step > 0 /\ start < end /\ Exhausted /\ Len(produced) < USIZE_MAX)
        => len = Len(produced)

\* C2 (exclusive mode): for start < end and step > 0 the elements produced
\* are start + k*step for k = 0, 1, ... , each before end; when next()
\* returns None all k with start + k*step < end have been produced, which
\* are n elements when end = start + n*step.
C2_Exclusive ==
    (~incl /\ start < end /\ step > 0) =>
        /\ Arithmetic
        /\ \A i \in 1..Len(produced) : produced[i] < end
        /\ Exhausted => Len(produced) = ExclusiveCount
        /\ (Exhausted /\ (end - start) % step = 0)
              => Len(produced) = (end - start) \div step

\* exclusive over a range of 12 with step 2, traversed to the end: 6 elements
C2_Witness ==
    /\ ~incl /\ start = 0 /\ end = 12 /\ step = 2
    /\ Exhausted
    /\ Len(produced) = 6

\* C3 (inclusive mode): for start <= end and step > 0 the elements produced
\* are start + k*step for k = 0, 1, ... , none after end; when next()
\* returns None all k with start + k*step <= end have been produced, the
\* last one is the largest such element, and when end = start + n*step the
\* last element is end and n + 1 elements have been produced.
C3_Inclusive ==
    (incl /\ start <= end /\ step > 0) =>
        /\ Arithmetic
        /\ \A i \in 1..Len(produced) : produced[i] <= end
        /\ Exhausted =>
              /\ Len(produced) = InclusiveCount
              /\ Len(produced) >= 1
              /\ produced[Len(produced)] + step > end
        /\ (Exhausted /\ (end - start) % step = 0) =>
              /\ Len(produced) = (end - start) \div step + 1
              /\ produced[Len(produced)] = end

\* inclusive over a range of 12 with step 2, traversed to the end: 7 elements
C3_Witness ==
    /\ incl /\ start = 0 /\ end = 12 /\ step = 2
    /\ Exhausted
    /\ Len(produced) = 7
    /\ produced[7] = end

\* C4 (reported length, exact multiples): for step > 0 and
\* end = start + steps*step with steps >= 1, len() is steps - 1 in exclusive
\* mode and steps in inclusive mode (stated for steps below the largest usize).
C4_ExactMultipleLen ==
    (/\ op = "len" /\ step > 0 /\ start < end
     /\ (end - start) % step = 0
     /\ (end - start) \div step < USIZE_MAX)
        => count = IF incl THEN (end - start) \div step
                           ELSE (end - start) \div step - 1

\* C5 (size-hint bound): in every state size_hint() returns
\* (len(), Some(len() + 1)), also when len() is the largest usize.
C5_SizeHint ==
    op = "size_hint"
        => hint = [lo |-> len, hi |-> Some(len + 1), panicked |-> FALSE]

\* C6 (remaining count): for step > 0 and start < end, after any number of
\* next() calls len() and the lower bound of size_hint() equal the number of
\* elements that next() will still produce (stated for the ranges whose
\* count at construction is right and below the largest usize).
C6_RemainingCount ==
    (/\ step > 0 /\ start < end
     /\ ForwardCount < USIZE_MAX /\ len = ForwardCount) =>
        /\ op = "len" => count = ForwardCount - Len(produced)
        /\ op = "size_hint" => hint.lo = ForwardCount - Len(produced)

\* C7 (mismatched step sign): when the sign of a non-zero step is opposite
\* to the direction from start to end, the first next() returns None: the
\* forward traversal produces nothing.
C7_MismatchedSign ==
    ((step < 0 /\ start < end) \/ (step > 0 /\ start > end))
        => produced = <<>>

\* C8 (finiteness): when step is non-zero and has the sign of end - start,
\* repeated next() calls eventually return None.
SameSign == (step > 0 /\ end > start) \/ (step < 0 /\ end < start)
C8_Finite == SameSign => <>Exhausted

\* a traversal of several elements that has come to its end
C8_Witness == SameSign /\ Exhausted /\ Len(produced) >= 3 /\ step = 3

\* C9 (backward bound): an element returned by next_back() is never less
\* than start, and next_back() returns None exactly when cur - step < start.
C9_BackwardBound ==
    op = "next_back" =>
        /\ ret.some => ret.val >= start
        /\ ~ret.some <=> cur - step < start

\* next_back() after two forward steps returns start itself
C9_Witness ==
    /\ op = "next_back" /\ ret.some /\ ret.val = start
    /\ Len(produced) = 2 /\ step > 0

\* C10 (forward range): for a non-zero step every element e returned by
\* next() satisfies start <= e, e < end (exclusive) or e <= end (inclusive),
\* and the elements are strictly monotonic in the direction of step.
C10_ForwardRange ==
    step # 0 =>
        /\ \A i \in 1..Len(produced) :
              /\ start <= produced[i]
              /\ IF incl THEN produced[i] <= end ELSE produced[i] < end
        /\ \A i \in 1..(Len(produced) - 1) :
              IF step > 0 THEN produced[i] < produced[i + 1]
                          ELSE produced[i] > produced[i + 1]

\* |end - start| / |step| for a non-zero step, rounded up (inclusive) or down
\* (exclusive), in integer arithmetic
AbsInt(x) == IF x < 0 THEN 0 - x ELSE x
RoundedQuotient ==
    LET n == AbsInt(end - start)
        d == AbsInt(step)
    IN  IF incl /\ n % d # 0 THEN n \div d + 1 ELSE n \div d

Stopped == NextStops(EpochAdd(cur, step))

\* C12 (exhaustion is stable): a next() that returns None leaves cur
\* unchanged; from then on, whatever is called, cur and the produced
\* elements stay as they are and every next() returns None.
C12_ExhaustionStable ==
    [][ /\ (op' = "next" /\ ~ret'.some) => (cur' = cur /\ Stopped')
        /\ Stopped =>
              /\ Stopped'
              /\ cur' = cur
              /\ produced' = produced
              /\ op' = "next" => ~ret'.some ]_vars

\* next_back() called on an exhausted inclusive series of several elements
C12_Witness ==
    /\ Stopped /\ incl /\ step > 0
    /\ op = "next_back" /\ ret.some
    /\ Len(produced) >= 3

\* C13 (cursor invariant): cur = start + k*step with k >= -1 in every state,
\* k being one less than the number of elements produced: k = -1 after
\* construction, and each next() that returns Some(e) adds step to cur, one
\* to k, and returns e = the new cur; so the elements are start,
\* start + step, ... and the first one is start.
C13_CursorInvariant ==
    /\ [](/\ cur = start + (Len(produced) - 1) * step
          /\ Len(produced) - 1 >= 0 - 1
          /\ op = "new" => (produced = <<>> /\ cur = start - step)
          /\ Arithmetic)
    /\ [][(op' = "next" /\ ret'.some) =>
              /\ cur' = cur + step
              /\ ret'.val = cur'
              /\ Len(produced') = Len(produced) + 1
              /\ produced = <<>> => ret'.val = start]_vars

\* the fourth element has just been produced, with a descending step
C13_Witness ==
    /\ op = "next" /\ ret.some /\ ret.val = cur
    /\ Len(produced) = 4 /\ step = 0 - 2
    /\ cur = start - 6

\* C14 (frame conditions): no call changes start, end, step or incl; next()
\* changes cur only when it returns Some; next_back(), len() and
\* size_hint() never change cur; the result of next_back() is determined by
\* cur, step and start alone (not by incl or end).
C14_Frame ==
    [][ /\ start' = start /\ end' = end /\ step' = step /\ incl' = incl
        /\ op' \in {"next_back", "len", "size_hint"} => cur' = cur
        /\ (op' = "next" /\ ~ret'.some) => cur' = cur
        /\ op' = "next_back" =>
              ret' = IF cur - step < start THEN None ELSE Some(cur - step)
      ]_vars

\* next_back() has returned an element and the cursor is where next() left it
C14_Witness ==
    /\ op = "next_back" /\ ret.some /\ ret.val = start + step
    /\ step > 0 /\ Len(produced) = 3
    /\ cur = produced[3]

\* C15 (backward traversal does not exhaust): for step > 0, once next() has
\* produced at least two elements, every next_back() returns Some(cur - step),
\* the element next() produced before its most recent one, and never None.
C15_BackwardRepeats ==
    (step > 0 /\ Len(produced) >= 2 /\ op = "next_back") =>
        /\ ret = Some(cur - step)
        /\ ret.val = produced[Len(produced) - 1]
        /\ cur = produced[Len(produced)]

\* next_back() after four forward steps returns the third element
C15_Witness ==
    /\ step > 0 /\ Len(produced) = 4 /\ op = "next_back"
    /\ ret.some /\ ret.val = produced[3]

\* C16 (backward traversal of a fresh iterator is empty): for step > 0,
\* before any next() and after exactly one successful next(), next_back()
\* returns None, whatever the length of the range.
C16_FreshBackwardEmpty ==
    (step > 0 /\ Len(produced) <= 1 /\ op = "next_back") => ~ret.some

\* next_back() returns None after one forward step on a range of several
\* elements
C16_Witness ==
    /\ step > 0 /\ Len(produced) = 1 /\ op = "next_back" /\ ~ret.some
    /\ len >= 3 /\ ForwardCount >= 3

\* C17 (zero step): with step = 0, cur = start in every state; next()
\* returns None whenever start >= end (exclusive) or start > end
\* (inclusive), and Some(start) otherwise, however often it is called.
C17_ZeroStep ==
    step = 0 =>
        /\ cur = start
        /\ \A i \in 1..Len(produced) : produced[i] = start
        /\ op = "next" =>
              IF (~incl /\ start >= end) \/ (incl /\ start > end)
              THEN ~ret.some /\ produced = <<>>
              ELSE ret = Some(start)

\* the same element has been produced five times
C17_Witness ==
    /\ step = 0 /\ op = "next" /\ ret = Some(start)
    /\ Len(produced) = 5
====
